---- MODULE Spec2Model ----
(***************************************************************************)
(* Verification model of the correlation engine of Krio-Data-Weaver        *)
(* (backend/services/correlation_service.py).                              *)
(*                                                                         *)
(* Conventions                                                             *)
(*   - timestamps are whole hours (integers);                              *)
(*   - an optional value (Python None / pandas NaN / a float NaN) is the   *)
(*     empty tuple <<>>, a present value v is the 1-tuple <<v>>;           *)
(*   - the correlation coefficient is a fixed-point number in units of     *)
(*     1/RScale, the p-value in units of 1/PScale.                         *)
(***************************************************************************)
EXTENDS Integers, Sequences, FiniteSets, TLC

VARIABLES
    weather_data,       \* argument: list of WeatherData
    stock_data,         \* argument: list of StockData
    weather_variable,   \* argument: name of the weather column
    stock_variable,     \* argument: name of the stock column
    aligned_df,         \* rows returned by the last align_time_series
    x,                  \* argument of calculate_correlation: first series
    y,                  \* argument of calculate_correlation: second series
    corr,               \* (r, p) returned by the last calculate_correlation
    anomalies,          \* mapping returned by the last detect_anomalies
    insights,           \* narrative returned by the last generate_insights
    previous,           \* what the analyze_correlation before the last one computed
    service,            \* the AIInsightsService instance and its environment
    session,            \* db.session: pending objects, committed rows, call counts
    ret,                \* value returned by the last analyze_correlation
    raised,             \* exception that escaped the last call ("none" if none)
    outcome,            \* path the last analyze_correlation took
    mcp_client,         \* the MCPClient instance: retry_count, max_retries
    fetch,              \* the get_weather_data / get_stock_data call in progress
    op                  \* operation that produced the current state

vars == <<weather_data, stock_data, weather_variable, stock_variable,
          aligned_df, x, y, corr, anomalies, insights, previous, service,
          session, ret, raised, outcome, mcp_client, fetch, op>>

----------------------------------------------------------------------------
(* Bounds of the model *)

\* largest number of daily samples in a fetched series
MaxPoints == 11
\* largest number of samples in an irregularly sampled series
MaxLen == 2
\* series values handed directly to calculate_correlation range over 0..MaxVal
MaxVal == 1
\* largest number of missing values at the start of x, or at the end of y
MaxHoles == 1
\* largest number of (-1, +1) pairs in the normal part of a synthetic series
MaxPairs == 11
\* largest number of points injected into a synthetic series
MaxInjected == 5
\* fetches made with one client
MaxCalls == 4

(* Program constants *)

\* self.min_sample_size
MinSampleSize == 10
\* tolerance=pd.Timedelta(hours=12)
ToleranceHours == 12
\* hours per day, timedelta.days
HoursPerDay == 24

\* units per 1.0 of the correlation coefficient
RScale == 10 ^ 3
\* units per 1.0 of the p-value
PScale == 10 ^ 4

----------------------------------------------------------------------------
(* Optional values *)

None == <<>>
NaN == <<>>
Some(v) == <<v>>
Val(f) == f[1]

\* Python truthiness of an optional number: None and 0 are falsy
Truthy(f) == f # None /\ Val(f) # 0

Max2(a, b) == IF a >= b THEN a ELSE b
Min2(a, b) == IF a <= b THEN a ELSE b
Abs(a) == IF a < 0 THEN 0 - a ELSE a

----------------------------------------------------------------------------
(* StockData properties *)

\* StockData.volatility
Volatility(s) ==
    IF Truthy(s.high_price) /\ Truthy(s.low_price)
    THEN Some(Val(s.high_price) - Val(s.low_price))
    ELSE Some(0)

\* StockData.daily_change
DailyChange(s) ==
    IF Truthy(s.close_price) /\ Truthy(s.open_price)
    THEN Some(Val(s.close_price) - Val(s.open_price))
    ELSE Some(0)

----------------------------------------------------------------------------
(* align_time_series *)

\* one row of weather_df
WeatherRow(w) ==
    [timestamp     |-> w.timestamp,
     temperature   |-> IF Truthy(w.temperature) THEN w.temperature ELSE None,
     humidity      |-> w.humidity,
     precipitation |-> IF Truthy(w.precipitation) THEN w.precipitation ELSE Some(0),
     wind_speed    |-> IF Truthy(w.wind_speed) THEN w.wind_speed ELSE None]

\* one row of stock_df
StockRow(s) ==
    [timestamp    |-> s.timestamp,
     close_price  |-> IF Truthy(s.close_price) THEN s.close_price ELSE None,
     volume       |-> s.volume,
     volatility   |-> Volatility(s),
     daily_change |-> DailyChange(s)]

WeatherFrame(weather) == [i \in 1..Len(weather) |-> WeatherRow(weather[i])]
StockFrame(stock) == [i \in 1..Len(stock) |-> StockRow(stock[i])]

\* insert row r into the timestamp-sorted sequence s, after rows of equal timestamp
RECURSIVE InsertSorted(_, _)
InsertSorted(r, s) ==
    IF s = <<>> THEN <<r>>
    ELSE IF r.timestamp < Head(s).timestamp THEN <<r>> \o s
    ELSE <<Head(s)>> \o InsertSorted(r, Tail(s))

\* sort_index on the timestamp index
RECURSIVE SortIndex(_)
SortIndex(s) ==
    IF s = <<>> THEN <<>>
    ELSE InsertSorted(s[Len(s)], SortIndex(SubSeq(s, 1, Len(s) - 1)))

\* BackwardPos without the tolerance check
BackwardPosAnyGap(t, right) ==
    LET cands == {j \in 1..Len(right) : right[j].timestamp <= t}
    IN IF cands = {} THEN 0 ELSE CHOOSE j \in cands : \A k \in cands : k <= j

\* backward search of merge_asof: the last right row at or before t, 0 when there
\* is none or it is further than the tolerance
BackwardPos(t, right) ==
    LET cands == {j \in 1..Len(right) : right[j].timestamp <= t}
        pos == IF cands = {} THEN 0 ELSE CHOOSE j \in cands : \A k \in cands : k <= j
    IN IF pos # 0 /\ t - right[pos].timestamp > ToleranceHours THEN 0 ELSE pos

\* forward search of merge_asof: the first right row at or after t
ForwardPos(t, right) ==
    LET cands == {j \in 1..Len(right) : right[j].timestamp >= t}
        pos == IF cands = {} THEN 0 ELSE CHOOSE j \in cands : \A k \in cands : j <= k
    IN IF pos # 0 /\ right[pos].timestamp - t > ToleranceHours THEN 0 ELSE pos

\* NearestPos with a tie going to the later row
NearestPosTieLater(t, right) ==
    LET b == BackwardPos(t, right)
        f == ForwardPos(t, right)
    IN IF b # 0 /\ f # 0
       THEN IF t - right[b].timestamp < right[f].timestamp - t THEN b ELSE f
       ELSE IF b # 0 THEN b ELSE f

\* direction='nearest': the closer of the two, the backward one on a tie
NearestPos(t, right) ==
    LET b == BackwardPos(t, right)
        f == ForwardPos(t, right)
    IN IF b # 0 /\ f # 0
       THEN IF t - right[b].timestamp <= right[f].timestamp - t THEN b ELSE f
       ELSE IF b # 0 THEN b ELSE f

\* one merged row: the weather row w with label i - 1 and the stock row at
\* position j of right (0: none)
MergedRow(i, w, j, right) ==
    [index         |-> i - 1,
     right_indexer |-> j,
     timestamp     |-> w.timestamp,
     temperature   |-> w.temperature,
     humidity      |-> w.humidity,
     precipitation |-> w.precipitation,
     wind_speed    |-> w.wind_speed,
     close_price   |-> IF j = 0 THEN NaN ELSE right[j].close_price,
     volume        |-> IF j = 0 THEN NaN ELSE right[j].volume,
     volatility    |-> IF j = 0 THEN NaN ELSE right[j].volatility,
     daily_change  |-> IF j = 0 THEN NaN ELSE right[j].daily_change]

\* MergeAsof with the frames in the other order: one row per stock row
MergeAsofStockFirst(left, right) ==
    [i \in 1..Len(right) |->
        LET j == NearestPos(right[i].timestamp, left)
        IN IF j = 0
           THEN [MergedRow(i, [timestamp |-> right[i].timestamp, temperature |-> NaN,
                               humidity |-> NaN, precipitation |-> NaN,
                               wind_speed |-> NaN], i, right)
                 EXCEPT !.right_indexer = i]
           ELSE [MergedRow(i, left[j], i, right) EXCEPT !.timestamp = right[i].timestamp]]

\* pd.merge_asof(weather_df, stock_df, on='timestamp', direction='nearest',
\* tolerance=12h): a left join, one row per weather row. right_indexer is the
\* position of the matched row in the sorted stock frame (0: no match) and index
\* is the row label of the merged frame.
MergeAsof(left, right) ==
    [i \in 1..Len(left) |->
        MergedRow(i, left[i], NearestPos(left[i].timestamp, right), right)]

\* the columns dropna looks at
CriticalColumns == {"temperature", "close_price"}

\* aligned_df.dropna(subset=[...])
DropNa(rows, subset) ==
    LET Keep(r) == \A c \in subset : r[c] # NaN
    IN SelectSeq(rows, Keep)

\* CorrelationService.align_time_series
AlignTimeSeries(weather, stock) ==
    IF weather = <<>> \/ stock = <<>>
    THEN <<>>
    ELSE DropNa(MergeAsof(SortIndex(WeatherFrame(weather)),
                          SortIndex(StockFrame(stock))),
                CriticalColumns)

\* the data columns of a non-empty aligned frame
AlignedColumns ==
    {"temperature", "humidity", "precipitation", "wind_speed",
     "close_price", "volume", "volatility", "daily_change"}

----------------------------------------------------------------------------
(* Fixed-point arithmetic *)

\* floor of the square root of v >= 0, by bisection on lo..hi
RECURSIVE ISqrtIn(_, _, _)
ISqrtIn(v, lo, hi) ==
    IF lo >= hi THEN lo
    ELSE LET mid == (lo + hi + 1) \div 2
         IN IF mid * mid <= v THEN ISqrtIn(v, mid, hi) ELSE ISqrtIn(v, lo, mid - 1)

ISqrt(v) == ISqrtIn(v, 0, Min2(v, 46340))

\* floor(num * 10^d / den) for 0 <= num <= den, one decimal digit at a time
RECURSIVE LongDiv(_, _, _, _)
LongDiv(rem, den, d, q) ==
    IF d = 0 THEN q
    ELSE LongDiv((rem * 10) % den, den, d - 1, q * 10 + (rem * 10) \div den)

\* units per 1.0 of the density of r
FScale == 10 ^ 4
\* number of cells the interval [0, 1] of |r| is cut into
Cells == 10 ^ 2

\* a^m for a fixed-point a in 0..FScale
RECURSIVE PowFix(_, _)
PowFix(a, m) == IF m = 0 THEN FScale ELSE (a * PowFix(a, m - 1)) \div FScale

\* Under the null hypothesis the sample correlation of n points has density
\* proportional to (1 - t^2)^((n - 4) / 2) on [-1, 1]; this is its value at the
\* midpoint of cell k, which is what scipy's p-value integrates.
CellWeight(n, k) ==
    LET u == FScale - ((2 * k + 1) * (2 * k + 1)) \div 4
    IN IF n >= 4
       THEN ISqrt(FScale * PowFix(u, n - 4))
       ELSE (FScale * FScale) \div ISqrt(FScale * u)

\* the weight of every cell, for every sample size
CellTable ==
    [n \in 3..(MaxPoints + 1) |-> [k \in 0..(Cells - 1) |-> CellWeight(n, k)]]

\* sum of the weights of the cells lo..hi
RECURSIVE CellsWeight(_, _, _)
CellsWeight(n, lo, hi) ==
    IF lo > hi THEN 0
    ELSE IF lo = hi THEN CellTable[n][lo]
    ELSE LET mid == (lo + hi) \div 2
         IN CellsWeight(n, lo, mid) + CellsWeight(n, mid + 1, hi)

TailWeight(n, k) == CellsWeight(n, k, Cells - 1)

\* tail sums of the density, for every sample size and every first cell
TailTable ==
    [n \in 3..(MaxPoints + 1) |-> [k \in 0..Cells |-> TailWeight(n, k)]]

\* two-sided p-value of |r| = rabs / RScale for n points, in units of 1/PScale
PValue(n, rabs) ==
    LET c == rabs \div (RScale \div Cells)
        part == rabs % (RScale \div Cells)
        tail == IF c >= Cells THEN 0
                ELSE TailTable[n][c]
                     - ((TailTable[n][c] - TailTable[n][c + 1]) * part)
                       \div (RScale \div Cells)
    IN LongDiv(tail, TailTable[n][0], 4, 0)

----------------------------------------------------------------------------
(* calculate_correlation *)

\* positions of a pandas Series that hold NaN; a position past the end of the
\* series is missing after index alignment
IsNa(s, i) == i > Len(s) \/ s[i] = NaN

\* mask = ~(x.isna() | y.isna()), over the union of the two indexes
Mask(xs, ys) ==
    {i \in 1..Max2(Len(xs), Len(ys)) : ~(IsNa(xs, i) \/ IsNa(ys, i))}

\* s[mask]: the values of s at the masked positions, in order
RECURSIVE Take(_, _, _)
Take(s, mask, i) ==
    IF i > Len(s) THEN <<>>
    ELSE (IF i \in mask THEN <<Val(s[i])>> ELSE <<>>) \o Take(s, mask, i + 1)

XClean(xs, ys) == Take(xs, Mask(xs, ys), 1)
YClean(xs, ys) == Take(ys, Mask(xs, ys), 1)

RECURSIVE Sum(_)
Sum(s) == IF s = <<>> THEN 0 ELSE Head(s) + Sum(Tail(s))

Prod(a, b) == [i \in 1..Len(a) |-> a[i] * b[i]]

\* pearsonr without the sign of the covariance: |r| in place of r
PearsonrUnsigned(a, b) ==
    LET n == Len(a)
        cov == n * Sum(Prod(a, b)) - Sum(a) * Sum(b)
        va == n * Sum(Prod(a, a)) - Sum(a) * Sum(a)
        vb == n * Sum(Prod(b, b)) - Sum(b) * Sum(b)
        rabs == Min2(RScale, ISqrt(LongDiv(cov * cov, va * vb, 6, 0)))
        Returns(v) == [raises |-> "none", value |-> v]
    IN IF Len(a) # Len(b) \/ n < 2
       THEN [raises |-> "ValueError", value |-> <<>>]
       ELSE IF va = 0 \/ vb = 0 THEN Returns(<<NaN, NaN>>)
       ELSE IF n = 2 THEN Returns(<<Some(RScale), Some(PScale)>>)
       ELSE Returns(<<Some(rabs), Some(PValue(n, rabs))>>)

\* scipy.stats.pearsonr(a, b) on two sequences of numbers:
\*   raises ValueError for different lengths or fewer than 2 points,
\*   (nan, nan) with a warning for a constant input,
\*   r = +-1, p = 1 for 2 points, else Pearson's r clamped to [-1, 1] and
\*   the two-sided p-value.
Pearsonr(a, b) ==
    LET n == Len(a)
        cov == n * Sum(Prod(a, b)) - Sum(a) * Sum(b)
        va == n * Sum(Prod(a, a)) - Sum(a) * Sum(a)
        vb == n * Sum(Prod(b, b)) - Sum(b) * Sum(b)
        rabs == Min2(RScale, ISqrt(LongDiv(cov * cov, va * vb, 6, 0)))
        r == IF cov < 0 THEN 0 - rabs ELSE rabs
        Returns(v) == [raises |-> "none", value |-> v]
    IN IF Len(a) # Len(b) \/ n < 2
       THEN [raises |-> "ValueError", value |-> <<>>]
       ELSE IF va = 0 \/ vb = 0 THEN Returns(<<NaN, NaN>>)
       ELSE IF n = 2
       THEN Returns(<<Some(IF cov < 0 THEN 0 - RScale ELSE RScale), Some(PScale)>>)
       ELSE Returns(<<Some(r), Some(PValue(n, rabs))>>)

\* the neutral result (0.0, 1.0)
Neutral == <<Some(0), Some(PScale)>>

\* CalculateCorrelation without the check of the cleaned sample size
CalculateCorrelationNoRecheck(xs, ys) ==
    IF Len(xs) < MinSampleSize \/ Len(ys) < MinSampleSize THEN Neutral
    ELSE LET res == Pearsonr(XClean(xs, ys), YClean(xs, ys))
         IN IF res.raises # "none" THEN Neutral ELSE res.value

\* CorrelationService.calculate_correlation
CalculateCorrelation(xs, ys) ==
    IF Len(xs) < MinSampleSize \/ Len(ys) < MinSampleSize THEN Neutral
    ELSE IF Len(XClean(xs, ys)) < MinSampleSize THEN Neutral
    ELSE LET res == Pearsonr(XClean(xs, ys), YClean(xs, ys))
         IN IF res.raises # "none" THEN Neutral ELSE res.value

----------------------------------------------------------------------------
(* detect_anomalies *)

\* self.anomaly_threshold
AnomalyThreshold == 3
\* the fewest non-missing points detect_anomalies looks at
AnomalyMinPoints == 10

\* data[col].dropna(): the non-missing entries of a column with their row labels
RECURSIVE DropNaSeries(_, _)
DropNaSeries(rows, col) ==
    IF rows = <<>> THEN <<>>
    ELSE (IF Head(rows)[col] = NaN THEN <<>>
          ELSE <<[index |-> Head(rows).index, value |-> Val(Head(rows)[col])]>>)
         \o DropNaSeries(Tail(rows), col)

\* ZScoreExceeds with the sample standard deviation (ddof = 1)
ZScoreExceedsSampleStd(vals, v) ==
    LET n == Len(vals)
        dev == n * v - Sum(vals)
        var == n * Sum(Prod(vals, vals)) - Sum(vals) * Sum(vals)
    IN var # 0 /\ (n - 1) * dev * dev > AnomalyThreshold * AnomalyThreshold * n * var

\* |zscore(v)| > threshold within the values vals; scipy's zscore divides by the
\* population standard deviation (ddof = 0), and a constant series has no
\* defined Z-score, which compares false
ZScoreExceeds(vals, v) ==
    LET n == Len(vals)
        dev == n * v - Sum(vals)
        var == n * Sum(Prod(vals, vals)) - Sum(vals) * Sum(vals)
    IN var # 0 /\ dev * dev > AnomalyThreshold * AnomalyThreshold * var

\* the row labels flagged in one column (empty when the column is skipped)
AnomalyIndices(rows, col) ==
    LET series == DropNaSeries(rows, col)
        vals == [i \in 1..Len(series) |-> series[i].value]
        Flagged(e) == ZScoreExceeds(vals, e.value)
        hits == SelectSeq(series, Flagged)
    IN IF col \notin AlignedColumns \/ Len(series) < AnomalyMinPoints THEN <<>>
       ELSE [i \in 1..Len(hits) |-> hits[i].index]

\* DetectAnomalies with a key for every requested column
DetectAnomaliesKeepEmpty(rows, columns) ==
    [col \in columns |-> AnomalyIndices(rows, col)]

\* CorrelationService.detect_anomalies: only columns with a flagged point are keys
DetectAnomalies(rows, columns) ==
    [col \in {c \in columns : AnomalyIndices(rows, c) # <<>>} |->
        AnomalyIndices(rows, col)]

\* a count that leaves the flagged points out
AnomaliesCountNone(found) == 0

\* sum(len(indices) for indices in anomalies.values())
RECURSIVE AnomaliesCount(_)
AnomaliesCount(found) ==
    IF DOMAIN found = {} THEN 0
    ELSE LET c == CHOOSE k \in DOMAIN found : TRUE
         IN Len(found[c])
            + AnomaliesCount([k \in DOMAIN found \ {c} |-> found[k]])

----------------------------------------------------------------------------
(* generate_insights *)

\* comparisons of a float that may be NaN with a threshold: NaN compares false
FLt(f, c) == f # NaN /\ Val(f) < c
FGt(f, c) == f # NaN /\ Val(f) > c
FGe(f, c) == f # NaN /\ Val(f) >= c
FAbs(f) == IF f = NaN THEN NaN ELSE Some(Abs(Val(f)))

\* thresholds on r, in units of 1/RScale
StrongMin == (7 * RScale) \div 10
ModerateMin == (4 * RScale) \div 10
WeakMin == (2 * RScale) \div 10
Deadband == (5 * RScale) \div 100

\* thresholds on p, in units of 1/PScale
P001 == PScale \div 1000
P01 == PScale \div 100
P05 == (5 * PScale) \div 100
P10 == PScale \div 10

\* InsightStrength with exclusive lower bounds
InsightStrengthExclusive(r) ==
    IF FGt(FAbs(r), StrongMin) THEN "strong"
    ELSE IF FGt(FAbs(r), ModerateMin) THEN "moderate"
    ELSE IF FGt(FAbs(r), WeakMin) THEN "weak"
    ELSE "very weak"

InsightStrength(r) ==
    IF FGe(FAbs(r), StrongMin) THEN "strong"
    ELSE IF FGe(FAbs(r), ModerateMin) THEN "moderate"
    ELSE IF FGe(FAbs(r), WeakMin) THEN "weak"
    ELSE "very weak"

\* InsightDirection without the deadband around zero
InsightDirectionNoDeadband(r) ==
    IF FGt(r, 0) THEN "positive"
    ELSE IF FLt(r, 0) THEN "negative"
    ELSE "negligible"

InsightDirection(r) ==
    IF FGt(r, Deadband) THEN "positive"
    ELSE IF FLt(r, 0 - Deadband) THEN "negative"
    ELSE "negligible"

InsightRelationship(r) ==
    IF FGt(r, Deadband) THEN "increases with"
    ELSE IF FLt(r, 0 - Deadband) THEN "decreases with"
    ELSE "shows no clear relationship with"

InsightSignificance(p) ==
    IF FLt(p, P001) THEN "very highly significant"
    ELSE IF FLt(p, P01) THEN "highly significant"
    ELSE IF FLt(p, P05) THEN "significant"
    ELSE IF FLt(p, P10) THEN "marginally significant"
    ELSE "not statistically significant"

\* CorrelationService.generate_insights: the narrative, as the values its
\* template is filled with and the optional sentences it contains
GenerateInsights(r, p, wvar, svar, sample_size, anomalies_count) ==
    [sample_size      |-> sample_size,
     strength         |-> InsightStrength(r),
     direction        |-> InsightDirection(r),
     r_text           |-> r,
     weather_variable |-> wvar,
     stock_variable   |-> svar,
     relationship     |-> InsightRelationship(r),
     significance     |-> InsightSignificance(p),
     p_text           |-> p,
     verdict          |-> IF FLt(p, P05) THEN "statistically significant"
                          ELSE "not statistically significant",
     anomalies        |-> IF anomalies_count > 0 THEN Some(anomalies_count) ELSE None]

----------------------------------------------------------------------------
(* analyze_correlation *)

WeatherVariables == {"temperature", "humidity", "precipitation", "wind_speed"}
MarketVariables == {"open_price", "close_price", "high_price", "low_price", "volume"}

\* aligned_df[col]
Column(rows, col) == [i \in 1..Len(rows) |-> rows[i][col]]

RECURSIVE SeqMin(_)
SeqMin(s) == IF Len(s) = 1 THEN s[1] ELSE Min2(Head(s), SeqMin(Tail(s)))
RECURSIVE SeqMax(_)
SeqMax(s) == IF Len(s) = 1 THEN s[1] ELSE Max2(Head(s), SeqMax(Tail(s)))

\* the days of the period with both its first and its last day counted
PeriodDaysInclusive(start_date, end_date) ==
    (end_date - start_date) \div HoursPerDay + 1

\* (end_date - start_date).days for end_date >= start_date
PeriodDays(start_date, end_date) == (end_date - start_date) \div HoursPerDay

\* SignificanceLevel with a p of exactly 0.05 counted as significant
SignificanceLevelInclusive(p) ==
    IF FLt(p, P001) THEN "p < 0.001"
    ELSE IF FLt(p, P01) THEN "p < 0.01"
    ELSE IF FLt(p, P05 + 1) THEN "p < 0.05"
    ELSE "not significant"

SignificanceLevel(p) ==
    IF FLt(p, P001) THEN "p < 0.001"
    ELSE IF FLt(p, P01) THEN "p < 0.01"
    ELSE IF FLt(p, P05) THEN "p < 0.05"
    ELSE "not significant"

----------------------------------------------------------------------------
(* CorrelationResult helpers *)

\* an attribute that was never assigned (Python None where a float is expected)
Unset == <<0, 0>>

\* CorrelationResult.get_significance_category
GetSignificanceCategory(p_value) ==
    IF p_value = Unset THEN "unknown"
    ELSE IF FLt(p_value, P001) THEN "very_high"
    ELSE IF FLt(p_value, P01) THEN "high"
    ELSE IF FLt(p_value, P05) THEN "medium"
    ELSE IF FLt(p_value, P10) THEN "low"
    ELSE "none"

\* CorrelationResult.get_correlation_strength
GetCorrelationStrength(correlation_value) ==
    IF correlation_value = Unset THEN "unknown"
    ELSE IF FGe(FAbs(correlation_value), StrongMin) THEN "strong"
    ELSE IF FGe(FAbs(correlation_value), ModerateMin) THEN "moderate"
    ELSE IF FGe(FAbs(correlation_value), WeakMin) THEN "weak"
    ELSE "very_weak"

\* CorrelationResult.get_correlation_direction
GetCorrelationDirection(correlation_value) ==
    IF correlation_value = Unset THEN "none"
    ELSE IF FGt(correlation_value, Deadband) THEN "positive"
    ELSE IF FLt(correlation_value, 0 - Deadband) THEN "negative"
    ELSE "none"

----------------------------------------------------------------------------
(* analyze_correlation, continued *)

\* symbol.upper()
Upper(symbol) == IF symbol = "aapl" THEN "AAPL" ELSE symbol

\* the CorrelationResult analyze_correlation builds from a non-empty aligned frame
BuildResult(city, symbol, aligned, wvar, svar) ==
    LET rp == CalculateCorrelation(Column(aligned, wvar), Column(aligned, svar))
        count == AnomaliesCount(DetectAnomalies(aligned, {wvar, svar}))
        start_date == SeqMin(Column(aligned, "timestamp"))
        end_date == SeqMax(Column(aligned, "timestamp"))
    IN [city               |-> city,
        symbol             |-> Upper(symbol),
        start_date         |-> start_date,
        end_date           |-> end_date,
        period_days        |-> PeriodDays(start_date, end_date),
        correlation_value  |-> rp[1],
        p_value            |-> rp[2],
        sample_size        |-> Len(aligned),
        weather_variable   |-> wvar,
        stock_variable     |-> svar,
        significance_level |-> SignificanceLevel(rp[2]),
        analysis_notes     |-> GenerateInsights(rp[1], rp[2], wvar, svar,
                                                Len(aligned), count),
        anomalies_detected |-> count]

\* the NOT NULL and CHECK constraints of the correlation_results table
CheckConstraints(row) ==
    /\ row.period_days > 0
    /\ row.correlation_value # NaN
    /\ Val(row.correlation_value) >= 0 - RScale
    /\ Val(row.correlation_value) <= RScale
    /\ row.p_value # NaN
    /\ Val(row.p_value) >= 0
    /\ Val(row.p_value) <= PScale
    /\ row.sample_size > 0
    /\ row.anomalies_detected >= 0

----------------------------------------------------------------------------
(* get_correlation_matrix *)

\* tolerance=pd.Timedelta('6H')
MatrixToleranceHours == 6
\* the fewest aligned rows the matrix is computed from
MatrixMinPoints == 3

\* WeatherData.to_dict, the fields that hold numbers
WeatherToDict(w) ==
    [timestamp     |-> w.timestamp,
     temperature   |-> IF Truthy(w.temperature) THEN w.temperature ELSE None,
     humidity      |-> w.humidity,
     precipitation |-> IF Truthy(w.precipitation) THEN w.precipitation ELSE Some(0),
     wind_speed    |-> IF Truthy(w.wind_speed) THEN w.wind_speed ELSE None]

\* StockData.to_dict, the fields that hold numbers
StockToDict(s) ==
    [timestamp   |-> s.timestamp,
     open_price  |-> IF Truthy(s.open_price) THEN s.open_price ELSE None,
     close_price |-> IF Truthy(s.close_price) THEN s.close_price ELSE None,
     high_price  |-> IF Truthy(s.high_price) THEN s.high_price ELSE None,
     low_price   |-> IF Truthy(s.low_price) THEN s.low_price ELSE None,
     volume      |-> s.volume]

\* the columns of the merged frame that hold numbers, as the engine's frame has them
MatrixColumnsOfEngine ==
    {"temperature", "humidity", "precipitation", "wind_speed", "close_price", "volume"}

\* the columns of the merged frame that hold numbers
MatrixColumns ==
    {"temperature", "humidity", "precipitation", "wind_speed",
     "open_price", "close_price", "high_price", "low_price", "volume"}

\* direction='nearest' with a tolerance of tol hours: the position in right of
\* the row nearest to t, the earlier one on a tie, 0 when none is within tol
NearestPosWithin(t, right, tol) ==
    LET before == {j \in 1..Len(right) : right[j].timestamp <= t}
        after == {j \in 1..Len(right) : right[j].timestamp >= t}
        b == IF before = {} THEN 0 ELSE CHOOSE j \in before : \A k \in before : k <= j
        f == IF after = {} THEN 0 ELSE CHOOSE j \in after : \A k \in after : j <= k
        bok == b # 0 /\ t - right[b].timestamp <= tol
        fok == f # 0 /\ right[f].timestamp - t <= tol
    IN IF bok /\ fok
       THEN IF t - right[b].timestamp <= right[f].timestamp - t THEN b ELSE f
       ELSE IF bok THEN b ELSE IF fok THEN f ELSE 0

\* pd.merge_asof(weather_df.sort_values('timestamp'),
\* stock_df.sort_values('timestamp'), on='timestamp', direction='nearest',
\* tolerance=pd.Timedelta('6H'))
MatrixMerge(left, right) ==
    [i \in 1..Len(left) |->
        LET j == NearestPosWithin(left[i].timestamp, right, MatrixToleranceHours)
        IN [timestamp     |-> left[i].timestamp,
            temperature   |-> left[i].temperature,
            humidity      |-> left[i].humidity,
            precipitation |-> left[i].precipitation,
            wind_speed    |-> left[i].wind_speed,
            open_price    |-> IF j = 0 THEN NaN ELSE right[j].open_price,
            close_price   |-> IF j = 0 THEN NaN ELSE right[j].close_price,
            high_price    |-> IF j = 0 THEN NaN ELSE right[j].high_price,
            low_price     |-> IF j = 0 THEN NaN ELSE right[j].low_price,
            volume        |-> IF j = 0 THEN NaN ELSE right[j].volume]]

\* the aligned frame of the matrix and of the trends: merged, then .dropna() on
\* every column
MatrixAligned(weather, stock) ==
    DropNa(MatrixMerge(SortIndex([i \in 1..Len(weather) |-> WeatherToDict(weather[i])]),
                       SortIndex([i \in 1..Len(stock) |-> StockToDict(stock[i])])),
           MatrixColumns)

\* one entry of the matrix: pearsonr of two columns of the aligned frame. The
\* comparison p < 0.05 of a computed p is a numpy bool (numpy |-> TRUE), the
\* False of the except branch a Python bool.
MatrixEntry(a, b) ==
    LET res == Pearsonr([i \in 1..Len(a) |-> Val(a[i])], [i \in 1..Len(b) |-> Val(b[i])])
    IN IF res.raises # "none"
       THEN [r |-> Some(0), p |-> Some(PScale), significant |-> FALSE, numpy |-> FALSE]
       ELSE [r |-> res.value[1], p |-> res.value[2],
             significant |-> FLt(res.value[2], P05), numpy |-> TRUE]

\* the matrix: an entry for every pair of variables that are columns of the frame
Matrix(aligned) ==
    [wvar \in WeatherVariables |->
        [svar \in {v \in MarketVariables :
                      wvar \in MatrixColumns /\ v \in MatrixColumns} |->
            MatrixEntry(Column(aligned, wvar), Column(aligned, svar))]]

\* get_correlation_matrix for the fetched weather and stock records; serialises:
\* jsonify can write a numpy bool (it depends on the JSON provider in use; when it
\* cannot, the TypeError is answered with a 500)
GetCorrelationMatrix(weather, stock, serialises) ==
    LET aligned == MatrixAligned(weather, stock)
        matrix == Matrix(aligned)
    IN IF weather = <<>> \/ stock = <<>>
       THEN [status |-> 400, error |-> "Insufficient data for analysis"]
       ELSE IF Len(aligned) < MatrixMinPoints
       THEN [status |-> 400, error |-> "Not enough aligned data points"]
       ELSE IF ~serialises
               /\ \E wvar \in DOMAIN matrix : \E svar \in DOMAIN matrix[wvar] :
                      matrix[wvar][svar].numpy
       THEN [status |-> 500, error |-> "Internal server error"]
       ELSE [status |-> 200, matrix |-> matrix, sample_size |-> Len(aligned)]

----------------------------------------------------------------------------
(* AIInsightsService *)

\* The text of a response, line by line. A line that announces a section is
\* written as the name of that section, an empty line as "", a line that starts
\* with '#' as "#"; every other string is a line of prose.
SectionNames == {"statistical", "explanations", "implications", "recommendations"}

EmptySections == [name \in SectionNames |-> <<>>]

\* sections[current_section] = current_content, if there is a section and content
StoreSection(sections, current_section, current_content) ==
    IF current_section # "" /\ current_content # <<>>
    THEN [sections EXCEPT ![current_section] = current_content]
    ELSE sections

\* the loop over the lines of _parse_sections, and the store after it
RECURSIVE ParseLines(_, _, _, _)
ParseLines(lines, sections, current_section, current_content) ==
    IF lines = <<>>
    THEN StoreSection(sections, current_section, current_content)
    ELSE IF Head(lines) \in SectionNames
    THEN ParseLines(Tail(lines),
                    StoreSection(sections, current_section, current_content),
                    Head(lines), <<>>)
    ELSE IF current_section # "" /\ Head(lines) \notin {"", "#"}
    THEN ParseLines(Tail(lines), sections, current_section,
                    Append(current_content, Head(lines)))
    ELSE ParseLines(Tail(lines), sections, current_section, current_content)

\* text.strip(), on lines: without the empty lines at either end
RECURSIVE StripText(_)
StripText(lines) ==
    IF lines = <<>> THEN <<>>
    ELSE IF Head(lines) = "" THEN StripText(Tail(lines))
    ELSE IF lines[Len(lines)] = "" THEN StripText(SubSeq(lines, 1, Len(lines) - 1))
    ELSE lines

\* AIInsightsService._parse_sections
ParseSections(text) ==
    LET sections == ParseLines(text, EmptySections, "", <<>>)
    IN IF \A name \in SectionNames : sections[name] = <<>>
       THEN [sections EXCEPT !["statistical"] = StripText(text)]
       ELSE sections

\* AIInsightsService._build_prompt: the labels written into the prompt
BuildPrompt(data) ==
    LET abs_corr == Abs(data.correlation_value)
    IN [strength    |-> IF abs_corr > StrongMin THEN "strong"
                        ELSE IF abs_corr > ModerateMin THEN "moderate"
                        ELSE IF abs_corr > WeakMin THEN "weak"
                        ELSE "very weak",
        direction   |-> IF data.correlation_value > 0 THEN "positive" ELSE "negative",
        significant |-> IF data.p_value < P05 THEN "statistically significant"
                        ELSE "not statistically significant"]

\* AIInsightsService._generate_fallback_insight: each section is one paragraph,
\* given as the sentences chosen and the values written into them
GenerateFallbackInsight(data) ==
    LET abs_corr == Abs(data.correlation_value)
        strength == IF abs_corr > StrongMin THEN "strong"
                    ELSE IF abs_corr > ModerateMin THEN "moderate"
                    ELSE IF abs_corr > WeakMin THEN "weak"
                    ELSE "very weak"
        direction == IF data.correlation_value > 0 THEN "positive" ELSE "negative"
        significant == data.p_value < P05
    IN [statistical |->
            <<[strength |-> strength, direction |-> direction,
               r_text |-> data.correlation_value,
               weather_var |-> data.weather_variable, city |-> data.city,
               symbol |-> data.symbol, stock_var |-> data.stock_variable,
               sample_size |-> data.sample_size, p_text |-> data.p_value,
               verdict |-> IF significant
                           THEN "statistically significant at the 95% confidence level"
                           ELSE "not statistically significant"]>>,
        explanations |->
            <<[sentence |-> IF 10 * abs_corr > 3 * RScale
                            THEN "Several factors could explain this correlation"
                            ELSE "The weak correlation suggests minimal direct impact",
               weather_var |-> data.weather_variable, symbol |-> data.symbol]>>,
        implications |->
            <<[sentence |-> IF significant /\ abs_corr > ModerateMin
                            THEN "Investors should note this relationship"
                            ELSE "should not influence trading decisions",
               qualifier |-> IF significant THEN "" ELSE "and non-significant",
               symbol |-> data.symbol]>>,
        recommendations |->
            <<[sentence |-> "For deeper analysis, consider", symbol |-> data.symbol]>>]

\* the text the language model answers with, by the way it behaves
ResponseText(llm) ==
    CASE llm = "four_sections" ->
            <<"statistical", "prose 1", "", "explanations", "prose 2",
              "implications", "prose 3", "recommendations", "prose 4">>
      [] llm = "no_headers" -> <<"", "prose 1", "prose 2", "">>
      [] llm = "markdown" -> <<"#", "statistical", "#", "recommendations", "prose 4">>
      [] OTHER -> <<>>

\* _generate_ai_insight without the except clause
GenerateAIInsightNoCatch(svc, data) ==
    IF svc.llm = "raises"
    THEN [raises |-> "Exception", value |-> EmptySections]
    ELSE [raises |-> "none", value |-> ParseSections(ResponseText(svc.llm))]

\* AIInsightsService._generate_ai_insight
GenerateAIInsight(svc, data) ==
    IF svc.llm = "raises"
    THEN [raises |-> "none", value |-> GenerateFallbackInsight(data)]
    ELSE [raises |-> "none", value |-> ParseSections(ResponseText(svc.llm))]

\* AIInsightsService.generate_insight; reading self.model when __init__ never
\* assigned it raises AttributeError
GenerateInsight(svc, data) ==
    IF svc.genai_available
    THEN IF svc.model = <<"unassigned">>
         THEN [raises |-> "AttributeError", value |-> EmptySections]
         ELSE IF svc.model # None THEN GenerateAIInsight(svc, data)
         ELSE [raises |-> "none", value |-> GenerateFallbackInsight(data)]
    ELSE [raises |-> "none", value |-> GenerateFallbackInsight(data)]

\* AIInsightsService.__init__: installed is GENAI_AVAILABLE, api_key whether
\* GEMINI_API_KEY is set; llm is how the language model will behave
AIInsightsService(installed, api_key, llm) ==
    [installed       |-> installed,
     api_key         |-> api_key,
     genai_available |-> installed /\ api_key,
     model           |-> IF ~installed THEN None
                         ELSE IF api_key THEN <<"gemini-pro">>
                         ELSE <<"unassigned">>,
     llm             |-> llm]

----------------------------------------------------------------------------
(* Inputs *)

\* a WeatherData instance
Weather(t, temp, hum, precip, wind) ==
    [timestamp |-> t, temperature |-> temp, humidity |-> hum,
     precipitation |-> precip, wind_speed |-> wind]

\* a StockData instance
Stock(t, open, close, high, low, vol) ==
    [timestamp |-> t, open_price |-> open, close_price |-> close,
     high_price |-> high, low_price |-> low, volume |-> vol]

\* Daily weather of n days. "rising" warms by a degree a day, "flat" is constant,
\* "thaw" rises through 0 degrees on the third day, "spike" is constant but for
\* one hot day. The wind is calm (0) every sixth day.
TemperatureShapes == {"rising", "flat", "thaw", "spike"}

Temperature(shape, i) ==
    CASE shape = "rising" -> 10 + i
      [] shape = "flat" -> 15
      [] shape = "thaw" -> i - 3
      [] shape = "spike" -> IF i = 2 THEN 45 ELSE 15

WeatherDaily(n, shape) ==
    [i \in 1..n |->
        Weather(HoursPerDay * (i - 1), Some(Temperature(shape, i)),
                Some(40 + 3 * (i % 4)), Some(i % 2), Some(i % 6))]

\* Daily quotes of m days, taken offset hours after midnight. "rising" gains 2 a
\* day, "flat" never moves, "zigzag" alternates.
PriceShapes == {"rising", "flat", "zigzag"}

Close(shape, i) ==
    CASE shape = "rising" -> 100 + 2 * i
      [] shape = "flat" -> 100
      [] shape = "zigzag" -> 100 + 4 * (i % 2) + (i % 3)

StockDaily(m, shape, offset) ==
    [i \in 1..m |->
        Stock(HoursPerDay * (i - 1) + offset, Some(Close(shape, i) - 1 - (i % 2)),
              Some(Close(shape, i)), Some(Close(shape, i) + 2),
              Some(Close(shape, i) - 3), Some(50 + 3 * ((i * i) % 5)))]

\* hours after midnight at which the daily quote is taken
QuoteOffsets == {0, ToleranceHours + 1}

\* variable names a caller may pass: the enumerated ones and one unknown each
WeatherNames == WeatherVariables \cup {"pressure"}
MarketNames == MarketVariables \cup {"market_cap"}

\* Irregularly sampled series: up to MaxLen samples at these hours
TimeGrid == {0, 1, ToleranceHours + 1, ToleranceHours + 2, 2 * ToleranceHours + 1}

SeqsUpTo(S, n) == UNION {[1..k -> S] : k \in 0..n}

IrregularWeather ==
    {Weather(t, Some(temp), Some(50), Some(0), Some(5)) :
        t \in TimeGrid, temp \in {0, 20}}

IrregularStock ==
    {Stock(t, Some(99), Some(100), Some(102), Some(97), Some(50)) : t \in TimeGrid}

\* Series handed to calculate_correlation: n values that repeat with the given
\* period, the first holes of them missing (x) or the last holes of them (y)
Periodic(n, pattern, lead, trail) ==
    [i \in 1..n |->
        IF i <= lead \/ i > n - trail THEN NaN
        ELSE Some(pattern[((i - 1) % Len(pattern)) + 1])]

\* The lines of test_perfect_correlation, <<slope, intercept>>: y = 2x + 5 and
\* y = -3x + 10
Lines == {<<2, 5>>, <<0 - 3, 10>>}

\* x = np.arange(n_points)
Arange(n) == [i \in 1..n |-> Some(i - 1)]

\* y = slope * x + intercept
OnLine(xs, line) == [i \in 1..Len(xs) |-> Some(line[1] * Val(xs[i]) + line[2])]

\* Frames handed to detect_anomalies. A column of readings is "flat", has one
\* "spike", or a spike and a "shoulder" on the other side of the mean.
ReadingShapes == {"flat", "spike", "shoulder"}

Reading(shape, i) ==
    CASE shape = "flat" -> 15
      [] shape = "spike" -> IF i = 2 THEN 45 ELSE 15
      [] shape = "shoulder" -> IF i = 2 THEN 45 ELSE IF i = 5 THEN 8 ELSE 15

\* a row of a frame with the columns of the aligned frame
FrameRow(i, temp, close) ==
    [index |-> i - 1, right_indexer |-> i, timestamp |-> HoursPerDay * (i - 1),
     temperature |-> temp, humidity |-> Some(50), precipitation |-> Some(0),
     wind_speed |-> Some(5), close_price |-> close, volume |-> Some(50),
     volatility |-> Some(5), daily_change |-> Some(1)]

\* n rows: readings of which the last holes are missing, prices of which the
\* first pholes are missing
ReadingFrame(n, shape, holes, pshape, pholes) ==
    [i \in 1..n |->
        FrameRow(i,
                 IF i > n - holes THEN NaN ELSE Some(Reading(shape, i)),
                 IF i <= pholes THEN NaN ELSE Some(Close(pshape, i)))]

\* np.concatenate([normal_data, outliers]): a normal part of mean 0 and standard
\* deviation 1, here pairs of -1 and +1, then up points at +10 and down points
\* at -10
SyntheticFrame(pairs, up, down) ==
    [i \in 1..(2 * pairs + up + down) |->
        FrameRow(i,
                 Some(IF i <= 2 * pairs THEN 2 * (i % 2) - 1
                      ELSE IF i <= 2 * pairs + up THEN 10 ELSE 0 - 10),
                 Some(100))]

----------------------------------------------------------------------------
(* State machine *)

EmptySession == [new |-> <<>>, rows |-> <<>>, adds |-> 0, commits |-> 0, rollbacks |-> 0]

\* an empty dict
EmptyDict == [c \in {} |-> <<>>]

\* no AIInsightsService is involved
NoService == [installed |-> FALSE, api_key |-> FALSE, genai_available |-> FALSE,
              model |-> None, llm |-> "none"]

\* MCPClient.__init__
MaxRetries == 3

NewClient == [retry_count |-> 0, max_retries |-> MaxRetries]

\* no fetch has been made: the call in progress (active), which one it is, how
\* often it has executed the MCP command, the seconds it slept before each
\* retry, what it returned, and the calls made so far
NoFetch ==
    [active |-> FALSE, kind |-> "none", executions |-> 0, delays |-> <<>>,
     returned |-> "nothing", calls |-> 0]

\* nothing has been called yet
NothingCalled ==
    /\ mcp_client = NewClient
    /\ fetch = NoFetch
    /\ anomalies = EmptyDict
    /\ insights = None
    /\ previous = None
    /\ session = EmptySession
    /\ ret = None
    /\ raised = "none"
    /\ outcome = "none"
    /\ op = "init"

Idle ==
    /\ aligned_df = <<>>
    /\ x = <<>>
    /\ y = <<>>
    /\ corr = Neutral
    /\ service = NoService
    /\ NothingCalled

\* A request for an analysis of daily data: n days of weather, and quotes for
\* no day, for the same days or for the whole window.
Init ==
    /\ \E n \in 0..MaxPoints, shape \in TemperatureShapes :
          weather_data = WeatherDaily(n, shape)
    /\ \E m \in {0, Len(weather_data), MaxPoints}, shape \in PriceShapes,
          offset \in QuoteOffsets :
          stock_data = StockDaily(m, shape, offset)
    /\ weather_variable \in WeatherNames
    /\ stock_variable \in MarketNames
    /\ Idle

\* Refuse after a placeholder row was added and rolled back
RefuseAfterAdd(sess) ==
    [session |-> [sess EXCEPT !.adds = @ + 1, !.rollbacks = @ + 1],
     ret |-> None, outcome |-> "no_aligned_data"]

\* the early return on an empty aligned frame: nothing touches the session
Refuse(sess) ==
    [session |-> sess, ret |-> None, outcome |-> "no_aligned_data"]

\* SaveResult that writes the number of the save into the stored narrative
SaveResultNumbered(sess, result, db_ok) ==
    IF db_ok /\ CheckConstraints(result)
    THEN LET numbered == [result EXCEPT !.analysis_notes.sample_size = sess.adds + 1]
         IN [session |-> [sess EXCEPT !.rows = Append(@, numbered),
                                      !.adds = @ + 1,
                                      !.commits = @ + 1],
             ret     |-> Some(numbered),
             outcome |-> "saved"]
    ELSE [session |-> [sess EXCEPT !.adds = @ + 1,
                                   !.commits = @ + 1,
                                   !.rollbacks = @ + 1],
          ret     |-> None,
          outcome |-> "save_failed"]

\* db.session.add(result); db.session.commit(), and the rollback when it fails.
\* The commit succeeds when the database is up and the row meets the constraints
\* of its table.
SaveResult(sess, result, db_ok) ==
    IF db_ok /\ CheckConstraints(result)
    THEN [session |-> [sess EXCEPT !.rows = Append(@, result),
                                   !.adds = @ + 1,
                                   !.commits = @ + 1],
          ret     |-> Some(result),
          outcome |-> "saved"]
    ELSE [session |-> [sess EXCEPT !.adds = @ + 1,
                                   !.commits = @ + 1,
                                   !.rollbacks = @ + 1],
          ret     |-> None,
          outcome |-> "save_failed"]

\* CorrelationService.analyze_correlation(city, symbol, weather_data, stock_data,
\* weather_variable, stock_variable); db_ok: the database accepts commits
AnalyzeStep(db_ok) ==
    LET aligned == AlignTimeSeries(weather_data, stock_data)
        result == BuildResult("New York", "aapl", aligned,
                              weather_variable, stock_variable)
        done == IF aligned = <<>> THEN Refuse(session)
                ELSE SaveResult(session, result, db_ok)
    IN /\ aligned_df' = aligned
       /\ UNCHANGED <<mcp_client, fetch,
                      weather_data, stock_data, weather_variable, stock_variable,
                      service>>
       /\ IF aligned # <<>>
             /\ (weather_variable \notin AlignedColumns
                 \/ stock_variable \notin AlignedColumns)
          THEN /\ ret' = None
               /\ raised' = "KeyError"
               /\ outcome' = "raised"
               /\ UNCHANGED <<x, y, corr, anomalies, insights, session>>
          ELSE /\ ret' = done.ret
               /\ raised' = "none"
               /\ outcome' = done.outcome
               /\ session' = done.session
               /\ IF aligned = <<>>
                  THEN UNCHANGED <<x, y, corr, anomalies, insights>>
                  ELSE /\ x' = Column(aligned, weather_variable)
                       /\ y' = Column(aligned, stock_variable)
                       /\ corr' = <<result.correlation_value, result.p_value>>
                       /\ anomalies' = DetectAnomalies(aligned, {weather_variable,
                                                                 stock_variable})
                       /\ insights' = Some(result.analysis_notes)

\* the first call of a behaviour
AnalyzeCorrelation(db_ok) ==
    /\ op = "init"
    /\ op' = "analyze_correlation"
    /\ UNCHANGED previous
    /\ AnalyzeStep(db_ok)

Next == \E db_ok \in BOOLEAN : AnalyzeCorrelation(db_ok)

Spec == Init /\ [][Next]_vars

----------------------------------------------------------------------------
(* analyze_correlation called twice with the same arguments *)

\* A request for an analysis of daily data that is sent twice: no data, or a
\* window around the minimum sample size.
InitTwice ==
    /\ \E n \in {0, MaxPoints - 1, MaxPoints}, shape \in TemperatureShapes :
          weather_data = WeatherDaily(n, shape)
    /\ \E m \in {0, MaxPoints - 1, MaxPoints}, shape \in PriceShapes,
          offset \in QuoteOffsets :
          stock_data = StockDaily(m, shape, offset)
    /\ weather_variable \in WeatherNames
    /\ stock_variable \in MarketNames
    /\ Idle

\* the second call: the arguments are those of the first, the session is as the
\* first call left it, and the database may answer differently
AnalyzeAgain(db_ok) ==
    /\ op = "analyze_correlation"
    /\ op' = "analyze_again"
    /\ previous' = Some([aligned_df |-> aligned_df, corr |-> corr,
                         insights |-> insights, ret |-> ret, raised |-> raised])
    /\ AnalyzeStep(db_ok)

NextTwice ==
    \E db_ok \in BOOLEAN : AnalyzeCorrelation(db_ok) \/ AnalyzeAgain(db_ok)

SpecTwice == InitTwice /\ [][NextTwice]_vars

----------------------------------------------------------------------------
(* align_time_series on its own, over irregularly sampled series *)

InitAlign ==
    /\ weather_data \in SeqsUpTo(IrregularWeather, MaxLen)
    /\ stock_data \in SeqsUpTo(IrregularStock, MaxLen)
    /\ weather_variable = "temperature"
    /\ stock_variable = "close_price"
    /\ Idle

AlignCall ==
    /\ op = "init"
    /\ op' = "align_time_series"
    /\ aligned_df' = AlignTimeSeries(weather_data, stock_data)
    /\ UNCHANGED <<mcp_client, fetch,
                   weather_data, stock_data, weather_variable, stock_variable,
                   x, y, corr, anomalies, insights, previous, service,
                   session, ret, raised, outcome>>

NextAlign == AlignCall

SpecAlign == InitAlign /\ [][NextAlign]_vars

----------------------------------------------------------------------------
(* calculate_correlation on its own *)

InitCalc ==
    /\ \/ /\ \E n \in 0..MaxPoints, px \in [1..3 -> 0..MaxVal], lead \in 0..MaxHoles :
                x = Periodic(n, px, lead, 0)
          /\ \E n \in {Len(x), MaxPoints}, py \in [1..2 -> 0..MaxVal],
                trail \in 0..MaxHoles :
                y = Periodic(n, py, 0, trail)
       \/ \E n \in 0..MaxPoints, line \in Lines :
             /\ x = Arange(n)
             /\ y = OnLine(x, line)
    /\ weather_data = <<>>
    /\ stock_data = <<>>
    /\ weather_variable = "temperature"
    /\ stock_variable = "close_price"
    /\ aligned_df = <<>>
    /\ corr = Neutral
    /\ service = NoService
    /\ NothingCalled

CalcCall ==
    /\ op = "init"
    /\ op' = "calculate_correlation"
    /\ corr' = CalculateCorrelation(x, y)
    /\ UNCHANGED <<mcp_client, fetch,
                   weather_data, stock_data, weather_variable, stock_variable,
                   aligned_df, x, y, anomalies, insights, previous, service,
                   session, ret, raised, outcome>>

NextCalc == CalcCall

SpecCalc == InitCalc /\ [][NextCalc]_vars

----------------------------------------------------------------------------
(* detect_anomalies on its own *)

\* the fewest normal points of a synthetic series
MinNormal == 20

InitAnom ==
    /\ \/ /\ \E n \in 0..MaxPoints, shape \in ReadingShapes, holes \in 0..MaxHoles,
                pshape \in PriceShapes, pholes \in 0..(MaxHoles + 1) :
                aligned_df = ReadingFrame(n, shape, holes, pshape, pholes)
          /\ weather_variable \in {"temperature", "pressure"}
          /\ stock_variable \in {"close_price", "market_cap"}
       \/ /\ \E pairs \in (MinNormal \div 2)..MaxPairs, up \in 0..MaxInjected,
                down \in 0..MaxInjected :
                /\ up + down \in 1..MaxInjected
                /\ aligned_df = SyntheticFrame(pairs, up, down)
          /\ weather_variable = "temperature"
          /\ stock_variable = "close_price"
    /\ weather_data = <<>>
    /\ stock_data = <<>>
    /\ x = <<>>
    /\ y = <<>>
    /\ corr = Neutral
    /\ service = NoService
    /\ NothingCalled

\* self.detect_anomalies(aligned_df, [weather_variable, stock_variable])
DetectCall ==
    /\ op = "init"
    /\ op' = "detect_anomalies"
    /\ anomalies' = DetectAnomalies(aligned_df, {weather_variable, stock_variable})
    /\ UNCHANGED <<mcp_client, fetch,
                   weather_data, stock_data, weather_variable, stock_variable,
                   aligned_df, x, y, corr, insights, previous, service,
                   session, ret, raised, outcome>>

NextAnom == DetectCall

SpecAnom == InitAnom /\ [][NextAnom]_vars

----------------------------------------------------------------------------
(* The labels of a result: narrative, significance_level and the helpers *)

\* p-values at and next to every threshold, in units of 1/PScale
PGrid ==
    {0, PScale} \cup UNION {{t - 1, t, t + 1} : t \in {P001, P01, P05, P10}}

\* analyze_correlation has calculated (r, p) from SampleDays aligned rows
SampleDays == 3 * MinSampleSize

InitLabels ==
    /\ corr \in ({NaN} \cup {Some(r) : r \in (0 - RScale)..RScale})
                \X ({NaN} \cup {Some(p) : p \in PGrid})
    /\ weather_variable = "temperature"
    /\ stock_variable = "close_price"
    /\ weather_data = <<>>
    /\ stock_data = <<>>
    /\ aligned_df = <<>>
    /\ x = <<>>
    /\ y = <<>>
    /\ service = NoService
    /\ NothingCalled

\* generate_insights and significance_level as analyze_correlation derives them
\* from (r, p), and the categories the CorrelationResult reports for the same
\* values
LabelResult ==
    /\ op = "init"
    /\ op' = "label_result"
    /\ insights' = Some(GenerateInsights(corr[1], corr[2], weather_variable,
                                         stock_variable, SampleDays, 0))
    /\ ret' = Some([correlation_value  |-> corr[1],
                    p_value            |-> corr[2],
                    significance_level |-> SignificanceLevel(corr[2]),
                    significance       |-> GetSignificanceCategory(corr[2]),
                    strength           |-> GetCorrelationStrength(corr[1]),
                    direction          |-> GetCorrelationDirection(corr[1])])
    /\ UNCHANGED <<mcp_client, fetch,
                   weather_data, stock_data, weather_variable, stock_variable,
                   aligned_df, x, y, corr, anomalies, previous, service,
                   session, raised, outcome>>

NextLabels == LabelResult

SpecLabels == InitLabels /\ [][NextLabels]_vars

----------------------------------------------------------------------------
(* AIInsightsService.generate_insight for a stored result *)

\* coefficients at and next to every threshold the fallback uses
RGrid ==
    {0 - RScale, 0 - StrongMin - 1, 0 - StrongMin, 0 - 1, 0, 1, RScale}
    \cup UNION {{t, t + 1} : t \in {WeakMin, (3 * RScale) \div 10, ModerateMin, StrongMin}}

LlmBehaviours == {"raises", "four_sections", "no_headers", "markdown", "empty"}

\* correlation_data as the route builds it from a stored CorrelationResult
CorrelationData ==
    [correlation_value |-> Val(corr[1]), p_value |-> Val(corr[2]),
     sample_size |-> SampleDays, city |-> "New York", symbol |-> "AAPL",
     weather_variable |-> weather_variable, stock_variable |-> stock_variable,
     anomalies_detected |-> 0, period_days |-> SampleDays - 1]

InitAI ==
    /\ corr \in {Some(r) : r \in RGrid} \X {Some(p) : p \in {0, P05 - 1, P05, PScale}}
    /\ \E installed \in BOOLEAN, api_key \in BOOLEAN, llm \in LlmBehaviours :
          service = AIInsightsService(installed, api_key, llm)
    /\ weather_variable = "temperature"
    /\ stock_variable = "close_price"
    /\ weather_data = <<>>
    /\ stock_data = <<>>
    /\ aligned_df = <<>>
    /\ x = <<>>
    /\ y = <<>>
    /\ NothingCalled

\* ai_insights_service.generate_insight(correlation_data)
GenerateInsightCall ==
    /\ op = "init"
    /\ op' = "generate_insight"
    /\ raised' = GenerateInsight(service, CorrelationData).raises
    /\ ret' = IF GenerateInsight(service, CorrelationData).raises = "none"
              THEN Some(GenerateInsight(service, CorrelationData).value)
              ELSE None
    /\ UNCHANGED <<mcp_client, fetch,
                   weather_data, stock_data, weather_variable, stock_variable,
                   aligned_df, x, y, corr, anomalies, insights, previous, service,
                   session, outcome>>

NextAI == GenerateInsightCall

SpecAI == InitAI /\ [][NextAI]_vars

----------------------------------------------------------------------------
(* MCPClient: get_weather_data and get_stock_data *)

\* the retry test with the last retry counted twice
RetryAllowedInclusive(client) == client.retry_count <= client.max_retries

\* if self.retry_count < self.max_retries
RetryAllowed(client) == client.retry_count < client.max_retries

\* time.sleep(2 ** self.retry_count), in seconds
Backoff(client) == 2 ^ client.retry_count

\* One client, and a caller that fetches weather and stock data some number of
\* times, one call after the other.
InitMCP ==
    /\ weather_data = <<>>
    /\ stock_data = <<>>
    /\ weather_variable = "temperature"
    /\ stock_variable = "close_price"
    /\ Idle

\* client.get_weather_data(...) or client.get_stock_data(...) is called
GetData(kind) ==
    /\ ~fetch.active
    /\ fetch.calls < MaxCalls
    /\ fetch' = [active |-> TRUE, kind |-> kind, executions |-> 0, delays |-> <<>>,
                 returned |-> "nothing", calls |-> fetch.calls + 1]
    /\ op' = kind
    /\ UNCHANGED <<mcp_client, weather_data, stock_data, weather_variable,
                   stock_variable, aligned_df, x, y, corr, anomalies, insights,
                   previous, service, session, ret, raised, outcome>>

GetWeatherData == GetData("get_weather_data")

GetStockData == GetData("get_stock_data")

\* One pass through the body of the call in progress: _execute_mcp_command
\* returns a result that is truthy or not, and the call returns the data,
\* sleeps and calls itself again, or resets the counter and returns None.
ExecuteMcpCommand(truthy) ==
    /\ fetch.active
    /\ IF truthy
       THEN /\ fetch' = [fetch EXCEPT !.active = FALSE, !.executions = @ + 1,
                                       !.returned = "data"]
            /\ UNCHANGED mcp_client
       ELSE IF RetryAllowed(mcp_client)
       THEN /\ mcp_client' = [mcp_client EXCEPT !.retry_count = @ + 1]
            /\ fetch' = [fetch EXCEPT !.executions = @ + 1,
                                       !.delays = Append(@, Backoff(mcp_client'))]
       ELSE /\ mcp_client' = [mcp_client EXCEPT !.retry_count = 0]
            /\ fetch' = [fetch EXCEPT !.active = FALSE, !.executions = @ + 1,
                                       !.returned = "None"]
    /\ UNCHANGED <<weather_data, stock_data, weather_variable, stock_variable,
                   aligned_df, x, y, corr, anomalies, insights, previous, service,
                   session, ret, raised, outcome, op>>

NextMCP ==
    \/ GetWeatherData
    \/ GetStockData
    \/ \E truthy \in BOOLEAN : ExecuteMcpCommand(truthy)

SpecMCP == InitMCP /\ [][NextMCP]_vars

\* subprocess.run(..., timeout=30) ends every execution of the command, and the
\* sleeps are finite: a call in progress takes its next step
SpecMCPLive == SpecMCP /\ WF_vars(\E truthy \in BOOLEAN : ExecuteMcpCommand(truthy))

----------------------------------------------------------------------------
(* analyze_correlation on readings that are not daily *)

\* hours between two readings
StepHours == {6, 18, HoursPerDay}

\* n readings, one every step hours
WeatherEvery(n, step, shape) ==
    [i \in 1..n |->
        Weather(step * (i - 1), Some(Temperature(shape, i)),
                Some(40 + 3 * (i % 4)), Some(i % 2), Some(i % 6))]

InitWindow ==
    /\ \E n \in 0..MaxPoints, step \in StepHours, shape \in TemperatureShapes :
          weather_data = WeatherEvery(n, step, shape)
    /\ \E m \in {MinSampleSize \div 2, Len(weather_data), MaxPoints},
          shape \in PriceShapes, offset \in QuoteOffsets :
          stock_data = StockDaily(m, shape, offset)
    /\ weather_variable = "temperature"
    /\ stock_variable = "close_price"
    /\ Idle

NextWindow == \E db_ok \in BOOLEAN : AnalyzeCorrelation(db_ok)

SpecWindow == InitWindow /\ [][NextWindow]_vars

----------------------------------------------------------------------------
(* get_correlation_matrix next to analyze_correlation on the same records *)

\* The matrix is requested for fetched daily data, and the same records are
\* analysed for temperature and close_price.
InitMatrix ==
    /\ \E n \in 0..MaxPoints, shape \in TemperatureShapes :
          weather_data = WeatherDaily(n, shape)
    /\ \E m \in {0, Len(weather_data), MaxPoints}, shape \in PriceShapes,
          offset \in QuoteOffsets \cup {MatrixToleranceHours} :
          stock_data = StockDaily(m, shape, offset)
    /\ weather_variable = "temperature"
    /\ stock_variable = "close_price"
    /\ Idle

\* POST /matrix, and what the engine computes for the same records
MatrixCall(serialises) ==
    /\ op = "init"
    /\ op' = "get_correlation_matrix"
    /\ ret' = Some(GetCorrelationMatrix(weather_data, stock_data, serialises))
    /\ aligned_df' = AlignTimeSeries(weather_data, stock_data)
    /\ corr' = IF AlignTimeSeries(weather_data, stock_data) = <<>> THEN corr
               ELSE CalculateCorrelation(
                        Column(AlignTimeSeries(weather_data, stock_data), weather_variable),
                        Column(AlignTimeSeries(weather_data, stock_data), stock_variable))
    /\ UNCHANGED <<mcp_client, fetch,
                   weather_data, stock_data, weather_variable, stock_variable,
                   x, y, anomalies, insights, previous, service,
                   session, raised, outcome>>

NextMatrix == \E serialises \in BOOLEAN : MatrixCall(serialises)

SpecMatrix == InitMatrix /\ [][NextMatrix]_vars

----------------------------------------------------------------------------
(* Claims about analyze_correlation (Spec) *)

Analyzed == op = "analyze_correlation"

\* C1: analyze produces a result only from at least 10 aligned points: every
\* result returned or stored has sample_size >= 10, and fewer than 10 aligned
\* points give no result and store nothing.
C1_ResultNeedsTenPoints ==
    Analyzed =>
        /\ ret # None => Val(ret).sample_size >= MinSampleSize
        /\ \A i \in 1..Len(session.rows) :
              session.rows[i].sample_size >= MinSampleSize
        /\ (raised = "none" /\ Len(aligned_df) < MinSampleSize) =>
              (ret = None /\ session.rows = <<>>)

\* C2: a failed save gives the caller something other than the None of the
\* insufficient-data refusal, and the computed result with it.
C2_SaveFailureDistinct ==
    outcome = "save_failed" =>
        /\ ret # None
        /\ Val(ret).correlation_value = corr[1]
        /\ Val(ret).p_value = corr[2]

\* C3: with a non-empty alignment, analyze raises for no pair of enumerated
\* variable names and correlates exactly the two columns named; it raises only
\* for a name outside the enumerated sets.
C3_EnumeratedPairsNeverRaise ==
    (Analyzed /\ aligned_df # <<>>) =>
        /\ (weather_variable \in WeatherVariables
            /\ stock_variable \in MarketVariables) =>
              /\ raised = "none"
              /\ x = Column(aligned_df, weather_variable)
              /\ y = Column(aligned_df, stock_variable)
        /\ raised # "none" =>
              (weather_variable \notin WeatherVariables
               \/ stock_variable \notin MarketVariables)

\* C4: when the alignment is empty, and so whenever either input list is empty,
\* analyze returns no result and nothing is added to or committed in the session.
C4_EmptyAlignmentRefused ==
    Analyzed =>
        /\ (weather_data = <<>> \/ stock_data = <<>>) => aligned_df = <<>>
        /\ aligned_df = <<>> =>
              /\ ret = None
              /\ raised = "none"
              /\ session = EmptySession

\* C4 witness: both lists hold samples, no pair survives the alignment, and the
\* call has returned
C4_Witness ==
    /\ Analyzed
    /\ weather_data # <<>>
    /\ stock_data # <<>>
    /\ aligned_df = <<>>
    /\ ret = None

----------------------------------------------------------------------------
(* Claims about calculate_correlation (SpecCalc) *)

Calculated == op = "calculate_correlation"

\* the index positions at which both series hold a value
PairedPositions ==
    {i \in 1..Min2(Len(x), Len(y)) : x[i] # NaN /\ y[i] # NaN}

\* the k-th paired position, counting from 1
PairedAt(k) ==
    CHOOSE i \in PairedPositions : Cardinality({j \in PairedPositions : j <= i}) = k

\* s takes a single value on the paired positions
FlatOnPairs(s) == \A i, j \in PairedPositions : s[i] = s[j]

\* C5: with at least 10 paired values, a series without variance gives exactly
\* (0.0, 1.0).
C5_FlatSeriesNeutral ==
    (Calculated /\ Cardinality(PairedPositions) >= MinSampleSize
     /\ (FlatOnPairs(x) \/ FlatOnPairs(y))) =>
        corr = Neutral

C7_CoefficientInRange ==
    Calculated =>
        /\ corr[1] # NaN
        /\ Val(corr[1]) >= 0 - RScale
        /\ Val(corr[1]) <= RScale
        /\ corr[2] # NaN
        /\ Val(corr[2]) >= 0
        /\ Val(corr[2]) <= PScale

----------------------------------------------------------------------------
(* Claims about align_time_series (SpecAlign) *)

Aligned == op = "align_time_series"

\* timestamp of the stock sample matched into an aligned row
PartnerTime(row) == SortIndex(StockFrame(stock_data))[row.right_indexer].timestamp

\* the rows of aligned_df, as a set of positions
AlignedRows == 1..Len(aligned_df)

\* C8 as stated: the market series is primary, so no market sample is in two
\* aligned records and there are no more records than market samples.
C8_MarketPrimary ==
    Aligned =>
        /\ Len(aligned_df) <= Len(stock_data)
        /\ \A a, b \in AlignedRows :
              a # b => aligned_df[a].right_indexer # aligned_df[b].right_indexer

\* C8 amended: the weather series is primary. Each weather sample is in at most
\* one aligned record, which carries that sample's timestamp, and there are no
\* more records than weather samples.
C8_WeatherPrimary ==
    Aligned =>
        /\ Len(aligned_df) <= Len(weather_data)
        /\ \A a \in AlignedRows :
              /\ aligned_df[a].index \in 0..(Len(weather_data) - 1)
              /\ aligned_df[a].timestamp
                    = SortIndex(WeatherFrame(weather_data))[aligned_df[a].index + 1].timestamp
        /\ \A a, b \in AlignedRows :
              a # b => aligned_df[a].index # aligned_df[b].index

\* C8 witness: one market sample is the partner of two weather samples
C8_Witness ==
    /\ Aligned
    /\ Len(aligned_df) > Len(stock_data)
    /\ \E a, b \in AlignedRows :
          a # b /\ aligned_df[a].right_indexer = aligned_df[b].right_indexer

\* C9 as stated: the weather sample of a record is never later than its market
\* sample.
C9_WeatherNotLater ==
    Aligned => \A a \in AlignedRows : aligned_df[a].timestamp <= PartnerTime(aligned_df[a])

\* C9 amended: the market sample of a record may lie on either side of the weather
\* sample. A later one is chosen only when it is strictly nearer than every market
\* sample at or before the weather sample, an earlier one when no market sample at
\* or after the weather sample is strictly nearer: a tie goes to the earlier one.
C9_TieGoesToEarlier ==
    Aligned =>
        \A a \in AlignedRows :
            LET w == aligned_df[a].timestamp
                s == PartnerTime(aligned_df[a])
            IN /\ s > w =>
                    \A j \in 1..Len(stock_data) :
                        stock_data[j].timestamp <= w
                            => w - stock_data[j].timestamp > s - w
               /\ s < w =>
                    \A j \in 1..Len(stock_data) :
                        stock_data[j].timestamp >= w
                            => stock_data[j].timestamp - w >= w - s

\* C9 witness: a weather sample paired with an earlier market sample although a
\* later one is exactly as near
C9_Witness ==
    /\ Aligned
    /\ \E a \in AlignedRows :
          /\ PartnerTime(aligned_df[a]) < aligned_df[a].timestamp
          /\ \E j \in 1..Len(stock_data) :
                stock_data[j].timestamp - aligned_df[a].timestamp
                    = aligned_df[a].timestamp - PartnerTime(aligned_df[a])

\* distance from hour t to the nearest market sample (stock_data not empty)
NearestGap(t) ==
    LET gaps == {Abs(stock_data[j].timestamp - t) : j \in 1..Len(stock_data)}
    IN CHOOSE g \in gaps : \A h \in gaps : g <= h

\* C10: in every aligned record the two timestamps are at most 12 hours apart and
\* no market sample is nearer to the weather sample than its partner; a weather
\* sample whose nearest market sample is more than 12 hours away is in no record,
\* and a market sample more than 12 hours from every weather sample is in none.
C10_NearestWithinTolerance ==
    Aligned =>
        /\ \A a \in AlignedRows :
              /\ aligned_df[a].right_indexer \in 1..Len(stock_data)
              /\ Abs(PartnerTime(aligned_df[a]) - aligned_df[a].timestamp)
                    <= ToleranceHours
              /\ Abs(PartnerTime(aligned_df[a]) - aligned_df[a].timestamp)
                    = NearestGap(aligned_df[a].timestamp)
        /\ \A i \in 1..Len(weather_data) :
              (stock_data # <<>>
               /\ NearestGap(SortIndex(WeatherFrame(weather_data))[i].timestamp)
                     > ToleranceHours)
                 => \A a \in AlignedRows : aligned_df[a].index # i - 1
        /\ \A j \in 1..Len(stock_data) :
              (\A i \in 1..Len(weather_data) :
                  Abs(weather_data[i].timestamp - stock_data[j].timestamp)
                      > ToleranceHours)
                 => \A a \in AlignedRows :
                       PartnerTime(aligned_df[a]) # stock_data[j].timestamp

\* C10 witness: one weather sample is paired at exactly 12 hours, another with a
\* temperature has its nearest market sample 13 hours away and is in no record
C10_Witness ==
    /\ Aligned
    /\ \E a \in AlignedRows :
          Abs(PartnerTime(aligned_df[a]) - aligned_df[a].timestamp) = ToleranceHours
    /\ \E i \in 1..Len(weather_data) :
          /\ SortIndex(WeatherFrame(weather_data))[i].temperature # NaN
          /\ NearestGap(SortIndex(WeatherFrame(weather_data))[i].timestamp)
                = ToleranceHours + 1
          /\ \A a \in AlignedRows : aligned_df[a].index # i - 1

----------------------------------------------------------------------------
(* Claims about the rows analyze_correlation works on (Spec) *)

\* the rows of the merged frame that found a market partner, before any is dropped
MatchedRows ==
    LET HasPartner(r) == r.right_indexer # 0
    IN SelectSeq(MergeAsof(SortIndex(WeatherFrame(weather_data)),
                           SortIndex(StockFrame(stock_data))),
                 HasPartner)

\* the aligned rows in which both chosen variables hold a value
UsedRows == {a \in 1..Len(aligned_df) : x[a] # NaN /\ y[a] # NaN}

\* C11: a matched row is dropped exactly when it misses one of the two chosen
\* variables: every aligned row holds both, and every matched row that holds
\* both is an aligned row.
C11_DropsExactlyMissingPair ==
    (Analyzed /\ weather_variable \in AlignedColumns
     /\ stock_variable \in AlignedColumns) =>
        /\ \A a \in 1..Len(aligned_df) :
              /\ aligned_df[a][weather_variable] # NaN
              /\ aligned_df[a][stock_variable] # NaN
        /\ \A k \in 1..Len(MatchedRows) :
              (MatchedRows[k][weather_variable] # NaN
               /\ MatchedRows[k][stock_variable] # NaN)
                 => \E a \in 1..Len(aligned_df) :
                       aligned_df[a].index = MatchedRows[k].index

\* C12: the sample_size of a result, and the count quoted in its narrative, is
\* the number of aligned rows in which both chosen variables hold a value.
C12_SampleSizeCountsUsedRows ==
    (Analyzed /\ ret # None) =>
        /\ Val(ret).sample_size = Cardinality(UsedRows)
        /\ Val(ret).analysis_notes.sample_size = Cardinality(UsedRows)

----------------------------------------------------------------------------
(* Claims about detect_anomalies (SpecAnom) *)

Detected == op = "detect_anomalies"

\* the columns detect_anomalies was asked about
Requested == {weather_variable, stock_variable}

\* the rows of the frame that hold a value in column col
Present(col) == {a \in 1..Len(aligned_df) : aligned_df[a][col] # NaN}

\* sum of column col over the rows S
RECURSIVE SumOf(_, _)
SumOf(col, S) ==
    IF S = {} THEN 0
    ELSE LET a == CHOOSE b \in S : TRUE
         IN Val(aligned_df[a][col]) + SumOf(col, S \ {a})

\* n times the deviation of row a from the mean of column col, n the number of
\* values in the column
Deviation(col, a) ==
    Cardinality(Present(col)) * Val(aligned_df[a][col]) - SumOf(col, Present(col))

\* sum of the squares of Deviation over the rows S
RECURSIVE SumSqDev(_, _)
SumSqDev(col, S) ==
    IF S = {} THEN 0
    ELSE LET a == CHOOSE b \in S : TRUE
         IN Deviation(col, a) * Deviation(col, a) + SumSqDev(col, S \ {a})

\* Z^2 > 9 for row a of column col: Z^2 = Deviation^2 / (SumSqDev / denom), with
\* denom the number n of values (population) or n - 1 (sample)
ZAbove(col, a, denom) ==
    /\ SumSqDev(col, Present(col)) # 0
    /\ denom * Deviation(col, a) * Deviation(col, a)
          > AnomalyThreshold * AnomalyThreshold * SumSqDev(col, Present(col))

\* Z^2 = 9 for row a of column col, population standard deviation
ZExactlyThree(col, a) ==
    /\ SumSqDev(col, Present(col)) # 0
    /\ Cardinality(Present(col)) * Deviation(col, a) * Deviation(col, a)
          = AnomalyThreshold * AnomalyThreshold * SumSqDev(col, Present(col))

\* the row labels detect_anomalies reported for column col
FlaggedLabels(col) ==
    IF col \in DOMAIN anomalies
    THEN {anomalies[col][k] : k \in 1..Len(anomalies[col])}
    ELSE {}

\* the columns detect_anomalies computes Z-scores for
Examined ==
    {col \in Requested \cap AlignedColumns :
        aligned_df # <<>> /\ Cardinality(Present(col)) >= AnomalyMinPoints}

C14_OnlyFlaggedColumns ==
    Detected =>
        /\ raised = "none"
        /\ DOMAIN anomalies \subseteq Requested \cap AlignedColumns
        /\ \A col \in DOMAIN anomalies :
              /\ anomalies[col] # <<>>
              /\ Cardinality(Present(col)) >= AnomalyMinPoints
        /\ \A col \in Requested \cap AlignedColumns :
              (aligned_df = <<>> \/ Cardinality(Present(col)) < AnomalyMinPoints)
                 => col \notin DOMAIN anomalies

\* C14 witness: one requested column has a flagged point, the other is skipped,
\* either absent from the frame or with fewer than 10 values
C14_Witness ==
    /\ Detected
    /\ DOMAIN anomalies = {"temperature"}
    /\ \/ stock_variable \notin AlignedColumns
       \/ /\ Present(stock_variable) # {}
          /\ Cardinality(Present(stock_variable)) < AnomalyMinPoints

\* the points of a synthetic series that were injected
Injected == {a \in 1..Len(aligned_df) : Abs(Val(aligned_df[a].temperature)) = 10}

\* the frame holds a synthetic series: 20 to 100 points of the normal range, then
\* 1 to 5 injected points
IsSynthetic ==
    /\ aligned_df # <<>>
    /\ Present("temperature") = 1..Len(aligned_df)
    /\ Cardinality(Injected) \in 1..5
    /\ Len(aligned_df) - Cardinality(Injected) \in MinNormal..100
    /\ \A a \in 1..Len(aligned_df) :
          IF a <= Len(aligned_df) - Cardinality(Injected)
          THEN Abs(Val(aligned_df[a].temperature)) = 1
          ELSE a \in Injected

\* C15: in a synthetic series detect_anomalies flags at least 1 point and at most
\* (injected + 2) points.
C15_InjectedPointsFlagged ==
    (Detected /\ IsSynthetic) =>
        /\ Cardinality(FlaggedLabels("temperature")) >= 1
        /\ Cardinality(FlaggedLabels("temperature")) <= Cardinality(Injected) + 2

----------------------------------------------------------------------------
(* Claims about the labels (SpecLabels) *)

Labelled == op = "label_result"

\* the category of CorrelationResult that names the same bucket as a word of the
\* narrative
BucketOf(word) ==
    CASE word = "very weak" -> "very_weak"
      [] word = "negligible" -> "none"
      [] OTHER -> word

\* C16: the strength label is decided by |r| alone with inclusive lower bounds
\* 0.7, 0.4 and 0.2, and the narrative and get_correlation_strength name the
\* same bucket.
C16_StrengthBuckets ==
    (Labelled /\ corr[1] # NaN) =>
        LET a == Abs(Val(corr[1]))
            label == Val(insights).strength
        IN /\ label = "strong" <=> 10 * a >= 7 * RScale
           /\ label = "moderate" <=> (10 * a >= 4 * RScale /\ 10 * a < 7 * RScale)
           /\ label = "weak" <=> (10 * a >= 2 * RScale /\ 10 * a < 4 * RScale)
           /\ label = "very weak" <=> 10 * a < 2 * RScale
           /\ Val(ret).strength = BucketOf(label)

\* C16 witness: an r of exactly -0.7 is labelled strong
C16_Witness ==
    /\ Labelled
    /\ corr[1] = Some(0 - StrongMin)
    /\ Val(insights).strength = "strong"
    /\ Val(ret).strength = "strong"

\* C17: r > 0.05 is positive, r < -0.05 negative, and every r from -0.05 to 0.05,
\* both ends included, has no direction, in the narrative and in
\* get_correlation_direction alike.
C17_DirectionDeadband ==
    (Labelled /\ corr[1] # NaN) =>
        LET r == Val(corr[1])
            label == Val(insights).direction
        IN /\ label = "positive" <=> 100 * r > 5 * RScale
           /\ label = "negative" <=> 100 * r < 0 - 5 * RScale
           /\ label = "negligible" <=> (100 * r >= 0 - 5 * RScale /\ 100 * r <= 5 * RScale)
           /\ Val(ret).direction = BucketOf(label)
           /\ (label = "positive") = (Val(insights).relationship = "increases with")
           /\ (label = "negative") = (Val(insights).relationship = "decreases with")

\* C17 witness: an r of exactly 0.05 has no direction
C17_Witness ==
    /\ Labelled
    /\ corr[1] = Some(Deadband)
    /\ Deadband > 0
    /\ Val(insights).direction = "negligible"
    /\ Val(ret).direction = "none"

----------------------------------------------------------------------------
(* Claims about repeated calls (SpecTwice) *)

AnalyzedAgain == op = "analyze_again"

----------------------------------------------------------------------------
(* Claims about AIInsightsService (SpecAI) *)

InsightGenerated == op = "generate_insight"

\* the language model cannot be used: library missing, no API key, or the call
\* raises
LlmUnavailable == ~service.installed \/ ~service.api_key \/ service.llm = "raises"

\* C20: when the language model is unavailable or its call raises,
\* generate_insight raises nothing and returns the rule-based fallback for the
\* data, the same whatever made the model unavailable, with four non-empty
\* sections.
C20_FallbackAlwaysProduced ==
    (InsightGenerated /\ LlmUnavailable) =>
        /\ raised = "none"
        /\ ret # None
        /\ DOMAIN Val(ret) = SectionNames
        /\ \A name \in SectionNames : Len(Val(ret)[name]) > 0
        /\ Val(ret) = GenerateFallbackInsight(CorrelationData)
        /\ Val(ret).statistical[1].r_text = Val(corr[1])
        /\ Val(ret).statistical[1].p_text = Val(corr[2])

\* C20 witness: the library is installed and the key is set, the call to the
\* language model raises, and the fallback is returned
C20_Witness ==
    /\ InsightGenerated
    /\ service.genai_available
    /\ service.llm = "raises"
    /\ raised = "none"
    /\ ret # None
    /\ \A name \in SectionNames : Len(Val(ret)[name]) > 0

----------------------------------------------------------------------------
(* Claims about the matrix (SpecMatrix) *)

MatrixAnswered == op = "get_correlation_matrix"

\* the request was answered with a matrix
MatrixReturned == MatrixAnswered /\ Val(ret).status = 200

----------------------------------------------------------------------------
(* Claims about exact linear input (SpecCalc) *)

\* y is slope * x + intercept at every point, for a line of the test
LinearOn(line) ==
    /\ Len(x) = Len(y)
    /\ \A i \in 1..Len(x) :
          /\ x[i] # NaN
          /\ y[i] # NaN
          /\ Val(y[i]) = line[1] * Val(x[i]) + line[2]
    /\ \E i, j \in 1..Len(x) : x[i] # x[j]

\* C22: for at least 10 points on an increasing line r is within 0.01 of 1.0,
\* and on a decreasing line within 0.01 of -1.0.
C22_PerfectLinearCorrelation ==
    (Calculated /\ Len(x) >= MinSampleSize) =>
        \A line \in Lines :
            LinearOn(line) =>
                /\ corr[1] # NaN
                /\ (line[1] > 0 => 100 * Abs(Val(corr[1]) - RScale) < RScale)
                /\ (line[1] < 0 => 100 * Abs(Val(corr[1]) + RScale) < RScale)

\* C22 witness: at least 10 points on the decreasing line, r = -1.0
C22_Witness ==
    /\ Calculated
    /\ Len(x) >= MinSampleSize
    /\ LinearOn(<<0 - 3, 10>>)
    /\ corr[1] = Some(0 - RScale)

----------------------------------------------------------------------------
(* Claims about the counts and the period of a result (Spec, SpecWindow) *)

\* the rows of the aligned frame whose value in column col has |Z| > 3, Z taken
\* over the column when it holds at least 10 values
FlaggedRows(col) ==
    {a \in Present(col) :
        /\ Cardinality(Present(col)) >= AnomalyMinPoints
        /\ ZAbove(col, a, Cardinality(Present(col)))}

AlignedTimes == {aligned_df[a].timestamp : a \in 1..Len(aligned_df)}

\* the timestamps of the weather samples handed to analyze
RequestedTimes == {weather_data[i].timestamp : i \in 1..Len(weather_data)}

\* C24: start_date and end_date of a result are the earliest and the latest
\* timestamp of the aligned records, and period_days is the number of whole days
\* between them, which is not negative; the span of the samples handed in plays
\* no part.
C24_PeriodFromAlignedRecords ==
    (Analyzed /\ ret # None) =>
        /\ Val(ret).start_date \in AlignedTimes
        /\ Val(ret).end_date \in AlignedTimes
        /\ \A t \in AlignedTimes : Val(ret).start_date <= t /\ t <= Val(ret).end_date
        /\ Val(ret).period_days >= 0
        /\ HoursPerDay * Val(ret).period_days
              <= Val(ret).end_date - Val(ret).start_date
        /\ Val(ret).end_date - Val(ret).start_date
              < HoursPerDay * (Val(ret).period_days + 1)

\* C24 witness: a result whose period ends before the last sample handed in and
\* is not a whole number of days long
C24_Witness ==
    /\ Analyzed
    /\ ret # None
    /\ \E t \in RequestedTimes : t > Val(ret).end_date
    /\ (Val(ret).end_date - Val(ret).start_date) % HoursPerDay # 0

\* the record analyze constructs from the aligned records
Constructed ==
    BuildResult("New York", "aapl", aligned_df, weather_variable, stock_variable)

\* analyze went as far as constructing a record
ResultConstructed == Analyzed /\ aligned_df # <<>> /\ raised = "none"

\* C25: every record analyze constructs from a non-empty alignment satisfies the
\* check constraints of the table, so a save fails only when the database
\* fails.
C25_ConstructedResultSatisfiesConstraints ==
    ResultConstructed =>
        /\ CheckConstraints(Constructed)
        /\ outcome = "save_failed" => session.rows = <<>> /\ ret = None

----------------------------------------------------------------------------
(* Claims about missing values (SpecAlign) *)

\* the weather samples in the order of their timestamps, as they were handed in
SortedSamples == SortIndex(weather_data)

\* sample i of SortedSamples has a quote with a close price within the tolerance
HasPartner(i) ==
    LET right == SortIndex(StockFrame(stock_data))
        j == NearestPos(SortedSamples[i].timestamp, right)
    IN j # 0 /\ right[j].close_price # NaN

\* C26: a reading of exactly 0 is a value like any other: a sample with a
\* temperature of 0 and a quote within the tolerance is an aligned record with
\* temperature 0.
C26_ZeroIsAValue ==
    Aligned =>
        \A i \in 1..Len(SortedSamples) :
            (SortedSamples[i].temperature = Some(0) /\ HasPartner(i)) =>
                \E a \in 1..Len(aligned_df) :
                    /\ aligned_df[a].timestamp = SortedSamples[i].timestamp
                    /\ aligned_df[a].temperature = Some(0)

----------------------------------------------------------------------------
(* The matrix next to the engine (SpecMatrix) *)

\* C30: the matrix agrees with the engine on the same samples: it is answered
\* whenever the engine has aligned records, from the same number of records, and
\* its entry for temperature and close_price holds the (r, p) that the engine
\* computes.
C30_MatrixAgreesWithEngine ==
    MatrixAnswered =>
        /\ aligned_df # <<>> => Val(ret).status # 400
        /\ Val(ret).status = 200 =>
              /\ Val(ret).sample_size = Len(aligned_df)
              /\ Val(ret).matrix["temperature"]["close_price"].r = corr[1]
              /\ Val(ret).matrix["temperature"]["close_price"].p = corr[2]

----------------------------------------------------------------------------
(* The labels of the AI-insight path next to the engine's (SpecAI) *)

\* C29: for every r the strength and the direction that the fallback insight and
\* the prompt name are the ones generate_insights and the CorrelationResult
\* helpers give to the same r, the bucket boundaries and the deadband
\* included.
C29_AILabelsMatchEngine ==
    (InsightGenerated /\ LlmUnavailable /\ ret # None) =>
        /\ Val(ret).statistical[1].strength = InsightStrength(corr[1])
        /\ Val(ret).statistical[1].direction = InsightDirection(corr[1])
        /\ BuildPrompt(CorrelationData).strength = InsightStrength(corr[1])
        /\ BuildPrompt(CorrelationData).direction = InsightDirection(corr[1])
        /\ (GetCorrelationStrength(corr[1]) = "very_weak"
              <=> Val(ret).statistical[1].strength = "very weak")
        /\ (GetCorrelationStrength(corr[1]) # "very_weak"
              => Val(ret).statistical[1].strength = GetCorrelationStrength(corr[1]))
        /\ (GetCorrelationDirection(corr[1]) # "none"
              => Val(ret).statistical[1].direction = GetCorrelationDirection(corr[1]))
        /\ (GetCorrelationDirection(corr[1]) = "none"
              => Val(ret).statistical[1].direction \notin {"positive", "negative"})

----------------------------------------------------------------------------
(* Claims about MCPClient (SpecMCP, SpecMCPLive) *)

\* no get_weather_data or get_stock_data call is in progress
NoFetchInProgress == ~fetch.active

\* C27: retry_count is 0 whenever no fetch is in progress, so every call has
\* the full budget of 3 retries: a call that returns None has executed the
\* command 4 times.
C27_RetryCountZeroBetweenCalls ==
    NoFetchInProgress =>
        /\ mcp_client.retry_count = 0
        /\ fetch.returned = "None" => fetch.executions = MaxRetries + 1

\* the seconds slept before the retries of the call are strictly increasing
DelaysIncreasing ==
    \A i \in 1..Len(fetch.delays) - 1 : fetch.delays[i] < fetch.delays[i + 1]

\* the bounds of a call, in progress or returned
FetchBounded ==
    /\ fetch.executions <= MaxRetries + 1
    /\ mcp_client.retry_count \in 0..mcp_client.max_retries
    /\ mcp_client.max_retries = MaxRetries
    /\ DelaysIncreasing
    /\ Len(fetch.delays) <= fetch.executions

\* C28: every call returns, whatever the server does: it executes the command
\* at most max_retries + 1 = 4 times, retry_count stays within 0..max_retries,
\* and the delays within the call are strictly increasing.
C28_FetchTerminates == []FetchBounded /\ (fetch.active ~> ~fetch.active)

\* C28 witness: a call that never got a result has returned None after 4
\* executions and 3 sleeps of 2, 4 and 8 seconds
C28_Witness ==
    /\ ~fetch.active
    /\ fetch.returned = "None"
    /\ fetch.executions = MaxRetries + 1
    /\ fetch.delays = <<2, 4, 8>>

====
